---- MODULE Spec2Model ----
(***************************************************************************)
(* CommitGPT: one invocation of the command line tool, from Cli::parse()   *)
(* to the exit code of main().  Text is a sequence of Unicode scalar       *)
(* values (what String::chars() yields); Option<T> is a set with at most   *)
(* one element; Vec<T> is a sequence.                                      *)
(***************************************************************************)
EXTENDS Integers, Sequences, FiniteSets, TLC

\* ------------------------------------------------------------------ bounds
\* Staged diffs of 0..SmallDiff scalar values, and of DiffLimit-1 ..
\* DiffLimit+OverLimit scalar values.
SmallDiff == 2
OverLimit == 2
\* Completion responses carry 0..MaxChoices choices.
MaxChoices == 2
\* Bodies of rejected requests are 0..MaxBody scalar values long.
MaxBody == 2
\* The selection loop is followed for at most MaxAttempts commit attempts.
MaxAttempts == 3

\* --------------------------------------------------------------- constants
\* main.rs:282  diff.chars().take(3800)
DiffLimit == 3800
\* main.rs:166  message.split('\n')
NL == 10
\* main.rs:246  StatusCode::OK
StatusOK == 200
\* main.rs:232  self.suggestions as u8
U8 == 256

default_suggestions == 5
default_tokens == 400

\* ``` d i f f \n        and        \n ` ` `
FenceOpen == <<96, 96, 96, 100, 105, 102, 102, 10>>
FenceClose == <<10, 96, 96, 96>>

\* ----------------------------------------------------------------- helpers
Min(a, b) == IF a < b THEN a ELSE b

unwrap(o) == CHOOSE x \in o : TRUE

unwrap_or(o, d) == IF o = {} THEN d ELSE unwrap(o)

\* Vec::get: None when the index is out of range (indices count from 0).
get(v, index) == IF index >= 0 /\ index < Len(v) THEN {v[index + 1]} ELSE {}

\* take, counting to the limit inclusively.
take_inclusive(s, n) == SubSeq(s, 1, Min(n + 1, Len(s)))

\* Iterator::take over chars(), collected into a String.
take(s, n) == SubSeq(s, 1, Min(n, Len(s)))

\* str::split(sep): walks the text once, closing a segment at every
\* separator; the text after the last separator is the last segment.
RECURSIVE split_acc(_, _, _, _)
split_acc(s, sep, cur, acc) ==
    IF s = <<>> THEN Append(acc, cur)
    ELSE IF Head(s) = sep
         THEN split_acc(Tail(s), sep, <<>>, Append(acc, cur))
         ELSE split_acc(Tail(s), sep, Append(cur, Head(s)), acc)

split(s, sep) == split_acc(s, sep, <<>>, <<>>)

\* All sequences over S of length 0..n.
SeqsUpTo(S, n) == UNION {[1..k -> S] : k \in 0..n}

\* ------------------------------------------------------------------ inputs
\* Command-line overrides (args.rs) and values of the settings file
\* (config.rs), as Option / plain values.
ArgTokens == {{}, {100}, {128000}}
ArgSuggestions == {{}, {1}}
FileTokens == {default_tokens, 200}
FileSuggestions == {default_suggestions, 10}

\* A staged diff of len scalar values: a line break at every k-th place,
\* elsewhere letters and, at every 11th and 13th place, scalar values that
\* take two and four bytes in UTF-8 (233, 128512).
MakeDiff(len, k) ==
    [i \in 1..len |->
        IF i % k = 0 THEN NL
        ELSE IF i % 11 = 0 THEN 233
        ELSE IF i % 13 = 0 THEN 128512
        ELSE 97 + ((i * i + i \div k) % 5)]

DiffLens == (0..SmallDiff) \cup ((DiffLimit - 1)..(DiffLimit + OverLimit))

Diffs == {MakeDiff(len, k) : len \in DiffLens, k \in {7, 9}}

\* Candidate texts: "f\n\nb" (subject, blank line, body), "w" (one line),
\* "\nx" (starts with a line break).
Texts == {<<102, 10, 10, 98>>, <<119>>, <<10, 120>>}

ChoiceLists == SeqsUpTo(Texts, MaxChoices)

Statuses == {StatusOK, 201, 401, 500}

Bodies == SeqsUpTo({101, 10}, MaxBody)

\* What the completion endpoint answers: a status, a body text (for a
\* status other than 200), whether the body could be read from the
\* connection, and for status 200 the choices its JSON body parses to
\* ({} when it does not parse as a ChatCompletion).
Responses ==
    {[status |-> StatusOK, body |-> <<>>, readable |-> r, json |-> j] :
        r \in BOOLEAN, j \in {{}} \cup {{c} : c \in ChoiceLists}}
    \cup
    {[status |-> st, body |-> b, readable |-> r, json |-> {}] :
        st \in Statuses \ {StatusOK}, b \in Bodies, r \in BOOLEAN}

\* ------------------------------------------------------------------- state
VARIABLES
    pc,               \* where run() / main() stands
    args,             \* the parsed command line: Option overrides
    config,           \* Option: the Config deserialized from the settings file
    settings,         \* Option: the resolved settings (self.tokens, self.suggestions)
    diff,             \* Option<String>: the staged diff held by run()/get_response()
    extractedEmpty,   \* whether get_diff() returned an empty text
    request,          \* Option: the ChatCompletion request built by get_response()
    completionCalls,  \* number of POSTs sent to the completion endpoint
    http,             \* Option: the answer of the endpoint
    response,         \* Vec<String>: the candidates
    selection,        \* Vec<String>: the labels shown by the prompt
    prompts,          \* number of selection prompts shown
    picked,           \* the result of the last Select::interact()
    commitMessage,    \* Option<String>: --message of the running git commit
    commitAttempts,   \* number of git commit invocations
    lastCommit,       \* how the last git commit ended
    failedCommits,    \* number of commit() calls that returned Err
    commitsSucceeded, \* number of commit() calls that returned Ok
    raised,           \* the error kinds constructed during the run
    result,           \* what run() returned
    exitCode,         \* what main() returned
    printed           \* what main() wrote to stderr

vars == <<pc, args, config, settings, diff, extractedEmpty, request, completionCalls,
          http, response, selection, prompts, picked, commitMessage,
          commitAttempts, lastCommit, failedCommits, commitsSucceeded, raised, result,
          exitCode, printed>>

Running == [kind |-> "Running", payload |-> <<>>]
Ok == [kind |-> "Ok", payload |-> <<>>]
Err(kind) == [kind |-> kind, payload |-> <<>>]

NotPrompted == [ok |-> FALSE, index |-> 0, err |-> "none"]

Init ==
    /\ pc = "Start"
    /\ args \in [suggestions : ArgSuggestions, max_tokens : ArgTokens]
    /\ config = {}
    /\ settings = {}
    /\ diff = {}
    /\ extractedEmpty = FALSE
    /\ request = {}
    /\ completionCalls = 0
    /\ http = {}
    /\ response = <<>>
    /\ selection = <<>>
    /\ prompts = 0
    /\ picked = NotPrompted
    /\ commitMessage = {}
    /\ commitAttempts = 0
    /\ lastCommit = "none"
    /\ failedCommits = 0
    /\ commitsSucceeded = 0
    /\ raised = {}
    /\ result = Running
    /\ exitCode = "none"
    /\ printed = [what |-> "none", kind |-> "none", payload |-> <<>>]

\* `?` / return Err(e): run() returns e to main().
Return(e) ==
    /\ pc' = "Returned"
    /\ result' = e
    /\ raised' = raised \cup {e.kind}

\* return Ok(())
ReturnOk ==
    /\ pc' = "Returned"
    /\ result' = Ok
    /\ UNCHANGED raised

\* ----------------------------------------------------------- SettingsResolver
\* For each field: the override when present, else the value of the file
\* (which serde fills with the default when the file omits the field).
resolve(overrides, file) ==
    [suggestions |-> unwrap_or(overrides.suggestions, file.suggestions),
     max_tokens |-> unwrap_or(overrides.max_tokens, file.max_tokens)]

\* run(), line 156: read_config().await?
ReadConfig ==
    /\ pc = "Start"
    /\ \/ /\ Return(Err("Config"))
          /\ UNCHANGED <<config, settings>>
       \/ \E file \in [suggestions : FileSuggestions, max_tokens : FileTokens] :
             /\ config' = {file}
             /\ settings' = {resolve(args, file)}
             /\ pc' = "GotConfig"
             /\ UNCHANGED <<result, raised>>
    /\ UNCHANGED <<args, diff, extractedEmpty, request, completionCalls, http,
                   response, selection, prompts, picked, commitMessage,
                   commitAttempts, lastCommit, failedCommits, commitsSucceeded, exitCode,
                   printed>>

\* ---------------------------------------------------------------- DiffExtractor
\* run(), line 158: get_diff()?  The command may fail to spawn, git may exit
\* non-zero, its output may not be UTF-8; otherwise the decoded text.
get_diff ==
    /\ pc = "GotConfig"
    /\ \/ /\ \E e \in {"CommandError", "GitDiff", "FromUtf8"} : Return(Err(e))
          /\ UNCHANGED <<diff, extractedEmpty>>
       \/ \E d \in Diffs :
             /\ diff' = {d}
             /\ extractedEmpty' = (Len(d) = 0)
             /\ pc' = "GotDiff"
             /\ UNCHANGED <<result, raised>>
    /\ UNCHANGED <<args, config, settings, request, completionCalls, http,
                   response, selection, prompts, picked, commitMessage,
                   commitAttempts, lastCommit, failedCommits, commitsSucceeded, exitCode,
                   printed>>

\* CheckEmpty without the guard: the diff goes on to get_response.
CheckEmptySkipped ==
    /\ pc = "GotDiff"
    /\ pc' = "Fetching"
    /\ UNCHANGED <<diff, result, raised>>
    /\ UNCHANGED <<args, config, settings, extractedEmpty, request,
                   completionCalls, http, response, selection, prompts, picked,
                   commitMessage, commitAttempts, lastCommit, failedCommits,
                   commitsSucceeded, exitCode, printed>>

\* run(), lines 159-161: if diff.is_empty() { return Err(EmptyDiff) }
CheckEmpty ==
    /\ pc = "GotDiff"
    /\ IF Len(unwrap(diff)) = 0
       THEN /\ Return(Err("EmptyDiff"))
            /\ diff' = {}
       ELSE /\ pc' = "Fetching"
            /\ UNCHANGED <<diff, result, raised>>
    /\ UNCHANGED <<args, config, settings, extractedEmpty, request,
                   completionCalls, http, response, selection, prompts, picked,
                   commitMessage, commitAttempts, lastCommit, failedCommits,
                   commitsSucceeded, exitCode, printed>>

\* ---------------------------------------------------------------- PromptBuilder
get_user_message(d) ==
    [role |-> "user", content |-> FenceOpen \o take(d, DiffLimit) \o FenceClose]

get_system_message == [role |-> "system", content |-> <<>>]

\* ------------------------------------------------------------- CompletionClient
\* ChatCompletionRequest with the built-in token default in place of
\* self.tokens.
ChatCompletionRequestDefault(s, d) ==
    [n |-> s.suggestions % U8,
     max_tokens |-> default_tokens,
     messages |-> <<get_system_message, get_user_message(d)>>]

\* get_response(), lines 231-236: the request built from self and the diff.
ChatCompletionRequest(s, d) ==
    [n |-> s.suggestions % U8,
     max_tokens |-> s.max_tokens,
     messages |-> <<get_system_message, get_user_message(d)>>]

BuildRequest ==
    /\ pc = "Fetching"
    /\ request' = {ChatCompletionRequest(unwrap(settings), unwrap(diff))}
    /\ pc' = "Built"
    /\ UNCHANGED <<args, config, settings, diff, extractedEmpty,
                   completionCalls, http, response, selection, prompts, picked,
                   commitMessage, commitAttempts, lastCommit, failedCommits,
                   commitsSucceeded, raised, result, exitCode, printed>>

\* IsRejected testing for a client or server error instead of "not 200".
IsRejectedErrorClass(status) == status >= 400

\* get_response(), line 246: response.status() != StatusCode::OK
IsRejected(status) == status # StatusOK

\* get_response(), line 247: CliError::FetchData(response.text().await?)
FetchData(body) == [kind |-> "FetchData", payload |-> body]

\* get_response(), lines 238-257: one POST; the diff and the request are
\* dropped when get_response returns.
Send ==
    /\ pc = "Built"
    /\ completionCalls' = completionCalls + 1
    /\ diff' = {}
    /\ request' = {}
    /\ \/ /\ Return(Err("Reqwest"))          \* send().await? fails
          /\ UNCHANGED <<http, response>>
       \/ \E r \in Responses :
             /\ http' = {r}
             /\ IF IsRejected(r.status)
                THEN /\ IF r.readable
                        THEN Return(FetchData(r.body))
                        ELSE Return(Err("Reqwest"))
                     /\ UNCHANGED response
                ELSE IF r.readable /\ r.json # {}
                THEN /\ response' = unwrap(r.json)
                     /\ pc' = "Fetched"
                     /\ UNCHANGED <<result, raised>>
                ELSE /\ Return(Err("Reqwest"))
                     /\ UNCHANGED response
    /\ UNCHANGED <<args, config, settings, extractedEmpty, selection, prompts,
                   picked, commitMessage, commitAttempts, lastCommit, failedCommits,
                   commitsSucceeded, exitCode, printed>>

\* ---------------------------------------------------------- SelectionController
\* first_line taking the last segment.
last_line(message) == split(message, NL)[Len(split(message, NL))]

\* run(), lines 166-167: the first segment of the text split at line breaks.
first_line(message) == Head(split(message, NL))

\* run(), lines 163-168: one label per candidate, in response order.
MakeSelection ==
    /\ pc = "Fetched"
    /\ selection' = [i \in 1..Len(response) |-> first_line(response[i])]
    /\ pc' = "Selecting"
    /\ UNCHANGED <<args, config, settings, diff, extractedEmpty, request,
                   completionCalls, http, response, prompts, picked,
                   commitMessage, commitAttempts, lastCommit, failedCommits,
                   commitsSucceeded, raised, result, exitCode, printed>>

\* Chosen reading the list of labels.
ChosenLabel(index) == get(selection, index)

\* run(), line 180: response.get(index)
Chosen(index) == get(response, index)

\* PromptErr propagating the error of the prompt.
PromptErrPropagates == Return(Err("EmptySelection"))

\* run(), line 186: Err(_) => return Ok(())
PromptErr == ReturnOk

\* run(), lines 171-187: the prompt over the labels and the match on its
\* result.  interact() returns the index of a listed entry, or an error: the
\* user cancelled, or the prompt itself failed (no terminal, nothing to list).
Select ==
    /\ pc = "Selecting"
    /\ prompts' = prompts + 1
    /\ \/ \E index \in 0..(Len(selection) - 1) :
             /\ commitAttempts < MaxAttempts
             /\ picked' = [ok |-> TRUE, index |-> index, err |-> "none"]
             /\ IF Chosen(index) = {}
                THEN /\ Return(Err("EmptySelection"))
                     /\ UNCHANGED <<commitMessage, commitAttempts>>
                ELSE /\ commitMessage' = Chosen(index)
                     /\ commitAttempts' = commitAttempts + 1
                     /\ pc' = "Committing"
                     /\ UNCHANGED <<result, raised>>
       \/ \E e \in {"cancelled", "failed"} :
             /\ picked' = [ok |-> FALSE, index |-> 0, err |-> e]
             /\ PromptErr
             /\ UNCHANGED <<commitMessage, commitAttempts>>
    /\ UNCHANGED <<args, config, settings, diff, extractedEmpty, request,
                   completionCalls, http, response, selection, lastCommit, failedCommits,
                   commitsSucceeded, exitCode, printed>>

\* ---------------------------------------------------------------- CommitExecutor
\* commit(), lines 288-296: git commit --message <message> --edit.  status()?
\* fails when the command cannot be spawned; a non-zero exit is GitCommit.
commit(outcome) ==
    IF outcome = "spawn_failed" THEN Err("CommandError")
    ELSE IF outcome = "nonzero" THEN Err("GitCommit")
    ELSE Ok

\* run(), lines 179-184: .is_ok() { return Ok(()) }
CommitSucceeded ==
    /\ ReturnOk
    /\ UNCHANGED <<response, selection>>

\* CommitFailed propagating the error (commit(..)? in place of .is_ok()).
CommitFailedPropagates(e) ==
    /\ Return(e)
    /\ UNCHANGED <<response, selection>>

\* run(), lines 179-185 and 170: .is_ok() is false, the error is dropped and
\* the loop goes round.
CommitFailed(e) ==
    /\ pc' = "Selecting"
    /\ raised' = raised \cup {e.kind}
    /\ UNCHANGED <<result, response, selection>>

Commit ==
    /\ pc = "Committing"
    /\ \E outcome \in {"spawn_failed", "nonzero", "ok"} :
          /\ lastCommit' = outcome
          /\ IF outcome = "ok"
             THEN UNCHANGED failedCommits /\ commitsSucceeded' = commitsSucceeded + 1
             ELSE failedCommits' = failedCommits + 1 /\ UNCHANGED commitsSucceeded
          /\ IF commit(outcome) = Ok
             THEN CommitSucceeded
             ELSE CommitFailed(commit(outcome))
    /\ commitMessage' = {}
    /\ UNCHANGED <<args, config, settings, diff, extractedEmpty, request,
                   completionCalls, http, prompts, picked, commitAttempts,
                   exitCode, printed>>

\* ------------------------------------------------------------------------ main
\* main(), lines 104-152: Err prints (the banner for Config, the error's
\* text otherwise) and fails; Ok succeeds.
ExitCodeOf(r) == IF r.kind = "Ok" THEN "SUCCESS" ELSE "FAILURE"

Exit ==
    /\ pc = "Returned"
    /\ pc' = "Exit"
    /\ exitCode' = ExitCodeOf(result)
    /\ printed' = IF result.kind = "Ok" THEN printed
                  ELSE IF result.kind = "Config"
                       THEN [what |-> "banner", kind |-> "Config", payload |-> <<>>]
                       ELSE [what |-> "message", kind |-> result.kind,
                             payload |-> result.payload]
    /\ UNCHANGED <<args, config, settings, diff, extractedEmpty, request,
                   completionCalls, http, response, selection, prompts, picked,
                   commitMessage, commitAttempts, lastCommit, failedCommits,
                   commitsSucceeded, raised, result>>

Next ==
    \/ ReadConfig
    \/ get_diff
    \/ CheckEmpty
    \/ BuildRequest
    \/ Send
    \/ MakeSelection
    \/ Select
    \/ Commit
    \/ Exit

Spec == Init /\ [][Next]_vars

\* ----------------------------------------------------------------- properties
Finished == pc \in {"Returned", "Exit"}

\* C1: in every run where the extracted staged diff is empty, run() returns
\* EmptyDiff, no completion request is ever sent, and no selection prompt
\* or commit happens.
C1_EmptyDiffStopsBeforeRequest ==
    extractedEmpty =>
        /\ pc \in {"GotDiff", "Returned", "Exit"}
        /\ Finished => result = Err("EmptyDiff")
        /\ completionCalls = 0
        /\ prompts = 0
        /\ commitAttempts = 0
        /\ pc = "Exit" => exitCode = "FAILURE"

C1_Witness ==
    /\ pc = "Exit"
    /\ extractedEmpty
    /\ result.kind = "EmptyDiff"
    /\ completionCalls = 0

\* C2: a commit attempt that fails leads back to Selecting with the same
\* candidates and the same labels, without a new completion request and
\* without run() returning; a commit that succeeds after a failed one ends
\* run() with Ok, and main() with success.
C2_FailedCommitReturnsToSelecting ==
    [][/\ (pc = "Committing" /\ lastCommit' # "ok") =>
             /\ pc' = "Selecting"
             /\ response' = response
             /\ selection' = selection
             /\ completionCalls' = completionCalls
             /\ result' = Running
       /\ (pc = "Committing" /\ lastCommit' = "ok" /\ failedCommits > 0) =>
             /\ pc' = "Returned"
             /\ result' = Ok
       /\ (pc = "Returned" /\ lastCommit = "ok" /\ failedCommits > 0) =>
             exitCode' = "SUCCESS"]_vars

C2_Witness ==
    /\ pc = "Exit"
    /\ failedCommits >= 1
    /\ commitsSucceeded = 1
    /\ "GitCommit" \in raised
    /\ result = Ok
    /\ exitCode = "SUCCESS"

\* C3: a user cancellation of the prompt, at the first prompt or after any
\* number of failed commits, ends the run with Ok, a success exit code,
\* nothing printed and no commit made.
C3_CancelIsSuccess ==
    (picked.err = "cancelled") =>
        /\ Finished
        /\ result = Ok
        /\ commitsSucceeded = 0
        /\ pc = "Exit" => (exitCode = "SUCCESS" /\ printed.what = "none")

C3_Witness ==
    /\ pc = "Exit"
    /\ picked.err = "cancelled"
    /\ failedCommits >= 2
    /\ exitCode = "SUCCESS"

C5_CommitsChosenCandidate ==
    pc = "Committing" =>
        /\ picked.ok
        /\ picked.index < Len(response)
        /\ commitMessage = {response[picked.index + 1]}

C5_Witness ==
    /\ pc = "Committing"
    /\ commitAttempts >= 2
    /\ picked.index = 1
    /\ commitMessage = {<<102, 10, 10, 98>>}
    /\ selection[2] = <<102>>
    /\ response[1] # response[2]

\* The text before the first line break, or the whole text when there is
\* none.
Label(t) ==
    IF \E i \in 1..Len(t) : t[i] = NL
    THEN SubSeq(t, 1,
                (CHOOSE i \in 1..Len(t) :
                    t[i] = NL /\ \A j \in 1..(i - 1) : t[j] # NL) - 1)
    ELSE t

\* C6: the list shown while selecting has one entry per candidate, in
\* response order, each the candidate's Label.
C6_OneLabelPerCandidate ==
    pc \in {"Selecting", "Committing"} =>
        /\ Len(selection) = Len(response)
        /\ \A i \in 1..Len(response) : selection[i] = Label(response[i])

C6_Witness ==
    /\ pc = "Selecting"
    /\ response = << <<102, 10, 10, 98>>, <<119>> >>
    /\ selection = << <<102>>, <<119>> >>

\* The diff excerpt between the fences of the user message.
Excerpt(r) ==
    SubSeq(r.messages[2].content, Len(FenceOpen) + 1,
           Len(r.messages[2].content) - Len(FenceClose))

\* C7: the excerpt in the user message is the prefix of the diff of its
\* first min(length, 3800) scalar values.
C7_ExcerptIsPrefix ==
    \A d \in diff : \A r \in request :
        /\ Len(Excerpt(r)) = (IF Len(d) > DiffLimit THEN DiffLimit ELSE Len(d))
        /\ \A i \in 1..Len(Excerpt(r)) : Excerpt(r)[i] = d[i]
        /\ SubSeq(r.messages[2].content, 1, Len(FenceOpen)) = FenceOpen

C7_Witness ==
    /\ pc = "Built"
    /\ \E d \in diff : \E r \in request :
          /\ Len(d) > DiffLimit
          /\ d[DiffLimit] # NL
          /\ d[DiffLimit + 1] # NL
          /\ Len(Excerpt(r)) = DiffLimit

C9_OnlyGitCommitHandledLocally ==
    (pc = "Exit" /\ (raised \ {"GitCommit"} # {} \/ picked.err = "failed")) =>
        /\ exitCode = "FAILURE"
        /\ printed.what # "none"

\* C10 (as claimed): once the selection loop is entered, the run leaves it
\* only through a pick whose commit succeeds or a user cancellation.
C10_LoopLeftOnlyByCommitOrCancel ==
    (Finished /\ prompts > 0) =>
        \/ picked.ok /\ lastCommit = "ok" /\ result = Ok
        \/ picked.err = "cancelled" /\ result = Ok

====
